---- MODULE Spec2Model ----
(***************************************************************************)
(* A model of modpath_cpp/planner.py: include resolution, header graph     *)
(* build, include-cycle detection, risk scoring, ranking, the readiness    *)
(* checks, the phase plan and the report of analyze_compile_commands.      *)
(*                                                                         *)
(* Strings the code inspects character by character (paths, suffixes,     *)
(* -std values) are sequences of one-character strings.                    *)
(***************************************************************************)
EXTENDS Integers, Sequences, FiniteSets, TLC

VARIABLES
    pc,                 \* position of the modelled run
    header,             \* scoring: the header path being scored
    include_count,      \* scoring: include_frequency.get(header, 0)
    macro_count,        \* scoring: macro_counts.get(header, ...)
    in_cycle,           \* scoring: header in cycle_nodes
    candidate,          \* scoring: the Candidate built, or NoCandidate
    graph,              \* cycles: header_graph, header -> set of included headers
    cycle_nodes,        \* cycles: _detect_cycle_nodes' cycle_nodes
    visited,            \* cycles: visited
    on_stack,           \* cycles: on_stack
    stack,              \* cycles: stack
    position,           \* cycles: position, header -> index in stack (from 0)
    todo,               \* cycles: per active dfs call, the children its loop has left
    root_idx,           \* cycles: index of the outer loop over the graph's keys
    run,                \* cycles: which invocation is running (1 or 2)
    first_cycle_nodes,  \* cycles: the first invocation's result
    header_signals,     \* ranking: per project header, its include_frequency,
                        \*   macro_counts and cycle_nodes entries
    candidates,         \* ranking: the candidates list
    top,                \* ranking: the top argument
    files,              \* resolution: the files that exist on disk
    include_name,       \* resolution: the spelling between the delimiters
    include_kind,       \* resolution: the opening delimiter, "<" or "\""
    including_file,     \* resolution: the file the directive was read from
    include_dirs,       \* resolution: the search directories, in order
    resolved,           \* resolution: the result of _resolve_include
    tu_args,            \* readiness: per compile entry, its argument list
    std_flags,          \* readiness: per translation unit, its std_flag
    cycle_count,        \* readiness: len(cycle_nodes)
    heavy_count,        \* readiness: number of headers with >= 8 #define lines
    unresolved_count,   \* readiness: len(unresolved_includes)
    readiness_checks,   \* readiness: the list _build_readiness_checks returns
    all_include_dirs,   \* build: the union of the units' search directories
    project_root,       \* build: the inferred project root
    include_tokens,     \* build: Counter of include spellings
    include_frequency,  \* build: Counter of resolved headers
    unresolved_includes,\* build: the unresolved quoted includes, in order
    header_graph,       \* build: header -> set of project headers it includes
    macro_counts,       \* build: header -> number of #define lines
    header_queue,       \* build: the worklist
    scanned_headers,    \* build: the headers scanned so far
    tu_idx,             \* build: index of the loop over tus
    lines_read,         \* build: include directives read so far in the run
    scan_log,           \* build: history of the drain, the headers in the
                        \*   order they were scanned (not kept by the code)
    token_counts,       \* phases: include_tokens.most_common(), as a list
    phases,             \* phases: the actions of the dict _build_phases returns
    report,             \* report: the PlannerReport's unresolved_includes
    summary             \* report: to_dict()'s summary.unresolved_include_count

scoreVars == <<header, include_count, macro_count, in_cycle, candidate>>
cycleVars == <<graph, cycle_nodes, visited, on_stack, stack, position, todo,
               root_idx, run, first_cycle_nodes>>
rankVars == <<header_signals, candidates, top>>
resolveVars == <<files, include_name, include_kind, including_file,
                 include_dirs, resolved>>
readyVars == <<tu_args, std_flags, cycle_count, heavy_count, unresolved_count,
               readiness_checks>>
buildVars == <<all_include_dirs, project_root, include_tokens,
               include_frequency, unresolved_includes, header_graph,
               macro_counts, header_queue, scanned_headers, tu_idx, lines_read,
               scan_log>>
phaseVars == <<token_counts, phases>>
reportVars == <<report, summary>>
vars == <<pc, scoreVars, cycleVars, rankVars, resolveVars, readyVars, buildVars,
          phaseVars, reportVars>>

----------------------------------------------------------------------------
(* Bounds of the model *)
MaxFreq == 5
MaxMacro == 12
MaxNodes == 3
MaxEdges == 4
MaxRankFreq == 2
MaxDirs == 2
MaxTUs == 2
MaxCount == 1
MaxLines == 4

(* Literals of the code *)
BaseRisk == 10
MacroPenaltyPer == 5
MacroPenaltyCap == 55
MacroHeavyMin == 8
CyclePenalty == 30
DotHPenalty == 10
LowReuseMax == 1
LowReusePenalty == 8
HighReuseMin == 4
HighReuseBonus == 6
RiskCap == 100
LowMax == 30
MediumMax == 65

----------------------------------------------------------------------------
(* Generic helpers *)
Min(a, b) == IF a <= b THEN a ELSE b
Max(a, b) == IF a >= b THEN a ELSE b

Range(s) == {s[i] : i \in DOMAIN s}

(* str.lower() on the characters the model uses *)
LowerChar(c) ==
    CASE c = "H" -> "h"
      [] c = "S" -> "s"
      [] c = "T" -> "t"
      [] c = "D" -> "d"
      [] c = "P" -> "p"
      [] c = "C" -> "c"
      [] c = "G" -> "g"
      [] c = "N" -> "n"
      [] c = "U" -> "u"
      [] OTHER -> c

LowerStr(s) == [i \in DOMAIN s |-> LowerChar(s[i])]

(* The final path component: everything after the last "/" *)
PathName(p) ==
    LET slashes == {i \in DOMAIN p : p[i] = "/"}
        from == IF slashes = {} THEN 1
                ELSE (CHOOSE i \in slashes : \A j \in slashes : j <= i) + 1
    IN SubSeq(p, from, Len(p))

(* PurePath.suffix: from the last "." of the name, unless the name starts  *)
(* with that dot or ends with it                                           *)
PathSuffix(p) ==
    LET name == PathName(p)
        dots == {i \in DOMAIN name : name[i] = "."}
        last == IF dots = {} THEN 0
                ELSE CHOOSE i \in dots : \A j \in dots : j <= i
    IN IF last > 1 /\ last < Len(name) THEN SubSeq(name, last, Len(name))
       ELSE <<>>

----------------------------------------------------------------------------
(* Risk scoring *)

(* One rationale line: an f-string, kept as its literal and formatted parts *)
RiskRationaleStrictHeavy(path, freq, macros, cyc) ==
    <<  <<"included ", ToString(freq), " time(s) across scanned files">> >>
    \o (IF macros # 0
        THEN IF macros > MacroHeavyMin
             THEN << <<"macro-heavy: ", ToString(macros), " #define directives">> >>
             ELSE << <<"contains ", ToString(macros), " #define directives">> >>
        ELSE << <<"no #define directives found">> >>)
    \o (IF cyc THEN << <<"participates in an include cycle">> >> ELSE <<>>)
    \o (IF LowerStr(PathSuffix(path)) = <<".", "h">>
        THEN << <<".h extension may indicate C/C++ mixed usage">> >>
        ELSE <<>>)
    \o (IF freq <= LowReuseMax
        THEN << <<"low reuse means lower migration payoff">> >>
        ELSE IF freq >= HighReuseMin
        THEN << <<"high reuse improves migration payoff">> >>
        ELSE <<>>)

RiskRationale(path, freq, macros, cyc) ==
    <<  <<"included ", ToString(freq), " time(s) across scanned files">> >>
    \o (IF macros # 0
        THEN IF macros >= MacroHeavyMin
             THEN << <<"macro-heavy: ", ToString(macros), " #define directives">> >>
             ELSE << <<"contains ", ToString(macros), " #define directives">> >>
        ELSE << <<"no #define directives found">> >>)
    \o (IF cyc THEN << <<"participates in an include cycle">> >> ELSE <<>>)
    \o (IF LowerStr(PathSuffix(path)) = <<".", "h">>
        THEN << <<".h extension may indicate C/C++ mixed usage">> >>
        ELSE <<>>)
    \o (IF freq <= LowReuseMax
        THEN << <<"low reuse means lower migration payoff">> >>
        ELSE IF freq >= HighReuseMin
        THEN << <<"high reuse improves migration payoff">> >>
        ELSE <<>>)

(* The risk before the final clamp *)
RawRiskNoDotH(path, freq, macros, cyc) ==
    LET r1 == BaseRisk
              + (IF macros # 0 THEN Min(MacroPenaltyCap, macros * MacroPenaltyPer)
                 ELSE 0)
        r2 == r1 + (IF cyc THEN CyclePenalty ELSE 0)
    IN IF freq <= LowReuseMax THEN r2 + LowReusePenalty
       ELSE IF freq >= HighReuseMin THEN Max(0, r2 - HighReuseBonus)
       ELSE r2

RawRisk(path, freq, macros, cyc) ==
    LET r1 == BaseRisk
              + (IF macros # 0 THEN Min(MacroPenaltyCap, macros * MacroPenaltyPer)
                 ELSE 0)
        r2 == r1 + (IF cyc THEN CyclePenalty ELSE 0)
        r3 == r2 + (IF LowerStr(PathSuffix(path)) = <<".", "h">>
                    THEN DotHPenalty ELSE 0)
    IN IF freq <= LowReuseMax THEN r3 + LowReusePenalty
       ELSE IF freq >= HighReuseMin THEN Max(0, r3 - HighReuseBonus)
       ELSE r3

RiskScoreUnclamped(path, freq, macros, cyc) == RawRisk(path, freq, macros, cyc)

RiskScore(path, freq, macros, cyc) ==
    Max(0, Min(RiskCap, RawRisk(path, freq, macros, cyc)))

RiskLevel(score) ==
    IF score <= LowMax THEN "low"
    ELSE IF score <= MediumMax THEN "medium"
    ELSE "high"

RecommendationScoreFirst(risk_score, cyc) ==
    IF risk_score > MediumMax THEN "defer until macro usage is reduced"
    ELSE IF cyc THEN "refactor include cycle before module migration"
    ELSE IF risk_score <= LowMax THEN "P1 header unit candidate"
    ELSE "P2 named module pilot"

Recommendation(risk_score, cyc) ==
    IF cyc THEN "refactor include cycle before module migration"
    ELSE IF risk_score <= LowMax THEN "P1 header unit candidate"
    ELSE IF risk_score <= MediumMax THEN "P2 named module pilot"
    ELSE "defer until macro usage is reduced"

(* The Candidate the loop body builds for one header *)
(* The characters re.sub(r"[^a-zA-Z0-9/._-]", "", stem) keeps *)
ModuleNameChars ==
    { "a", "b", "c", "d", "e", "f", "g", "h", "i", "j", "k", "l",
      "m", "n", "o", "p", "q", "r", "s", "t", "u", "v", "w", "x",
      "y", "z", "A", "B", "C", "D", "E", "F", "G", "H", "I", "J",
      "K", "L", "M", "N", "O", "P", "Q", "R", "S", "T", "U", "V",
      "W", "X", "Y", "Z", "0", "1", "2", "3", "4", "5", "6", "7",
      "8", "9", "/", ".", "_", "-" }

INCLUDE_PREFIX == <<"i", "n", "c", "l", "u", "d", "e", "/">>
UNNAMED_MODULE == <<"u", "n", "n", "a", "m", "e", "d", ".", "m", "o", "d", "u", "l", "e">>

(* Path(rel).with_suffix(""): the path without the suffix of its name *)
WithoutSuffix(p) == SubSeq(p, 1, Len(p) - Len(PathSuffix(p)))

(* re.sub(r"\.{2,}", ".", stem): a run of dots becomes one dot *)
CollapseDots(s) ==
    LET keep == {i \in DOMAIN s : s[i] # "." \/ i = 1 \/ s[i - 1] # "."}
    IN [k \in 1..Cardinality(keep) |->
           s[CHOOSE i \in keep : Cardinality({j \in keep : j <= i}) = k]]

(* str.strip(".") *)
StripDots(s) ==
    LET solid == {i \in DOMAIN s : s[i] # "."}
    IN IF solid = {} THEN <<>>
       ELSE SubSeq(s, CHOOSE i \in solid : \A j \in solid : i <= j,
                      CHOOSE i \in solid : \A j \in solid : j <= i)

(* _suggest_module_name, from the header's path relative to the project    *)
(* root                                                                    *)
SuggestModuleName(rel) ==
    LET inner == IF Len(rel) >= Len(INCLUDE_PREFIX)
                    /\ SubSeq(rel, 1, Len(INCLUDE_PREFIX)) = INCLUDE_PREFIX
                 THEN SubSeq(rel, Len(INCLUDE_PREFIX) + 1, Len(rel))
                 ELSE rel
        stem == WithoutSuffix(inner)
        kept == SelectSeq(stem, LAMBDA c : c \in ModuleNameChars)
        dotted == [i \in DOMAIN kept |->
                      IF kept[i] = "/" THEN "."
                      ELSE IF kept[i] = "-" THEN "_" ELSE kept[i]]
        name == StripDots(CollapseDots(dotted))
    IN IF name = <<>> THEN UNNAMED_MODULE ELSE name

MakeCandidate(path, freq, macros, cyc) ==
    LET risk == RiskScore(path, freq, macros, cyc)
    IN [header |-> path,
        suggested_module |-> SuggestModuleName(path),
        include_frequency |-> freq,
        macro_defines |-> macros,
        in_cycle |-> cyc,
        risk_score |-> risk,
        risk_level |-> RiskLevel(risk),
        recommendation |-> Recommendation(risk, cyc),
        rationale |-> RiskRationale(path, freq, macros, cyc)]

NoCandidate == [header |-> <<>>]

----------------------------------------------------------------------------
(* Each specification below runs one part of analyze_compile_commands; the *)
(* variables of the other parts rest at these values.                      *)

IdleScore ==
    /\ header = <<>>
    /\ include_count = 0
    /\ macro_count = 0
    /\ in_cycle = FALSE
    /\ candidate = NoCandidate

IdleCycle ==
    /\ graph = <<>>
    /\ cycle_nodes = {}
    /\ visited = {}
    /\ on_stack = {}
    /\ stack = <<>>
    /\ position = <<>>
    /\ todo = <<>>
    /\ root_idx = 0
    /\ run = 0
    /\ first_cycle_nodes = {}

IdleRank ==
    /\ header_signals = <<>>
    /\ candidates = <<>>
    /\ top = 0

(* The value of an Optional[Path]: None, or a path *)
None == [found |-> FALSE, path |-> <<>>]
Some(path) == [found |-> TRUE, path |-> path]

IdleResolve ==
    /\ files = {}
    /\ include_name = <<>>
    /\ include_kind = ""
    /\ including_file = <<>>
    /\ include_dirs = <<>>
    /\ resolved = None

IdleReady ==
    /\ tu_args = <<>>
    /\ std_flags = <<>>
    /\ cycle_count = 0
    /\ heavy_count = 0
    /\ unresolved_count = 0
    /\ readiness_checks = <<>>

IdleBuild ==
    /\ all_include_dirs = <<>>
    /\ project_root = <<>>
    /\ include_tokens = <<>>
    /\ include_frequency = <<>>
    /\ unresolved_includes = <<>>
    /\ header_graph = <<>>
    /\ macro_counts = <<>>
    /\ header_queue = <<>>
    /\ scanned_headers = {}
    /\ tu_idx = 0
    /\ lines_read = 0
    /\ scan_log = <<>>

NoPhases == [p1_actions |-> <<>>, p2_actions |-> <<>>]

IdlePhase ==
    /\ token_counts = <<>>
    /\ phases = NoPhases

IdleReport ==
    /\ report = <<>>
    /\ summary = 0

exceptScore == <<cycleVars, rankVars, resolveVars, readyVars, buildVars,
                  phaseVars, reportVars>>
exceptCycle == <<scoreVars, rankVars, resolveVars, readyVars, buildVars,
                  phaseVars, reportVars>>
exceptRank == <<scoreVars, cycleVars, resolveVars, readyVars, buildVars,
                 phaseVars, reportVars>>
exceptResolve == <<scoreVars, cycleVars, rankVars, readyVars, buildVars,
                    phaseVars, reportVars>>
exceptReady == <<scoreVars, cycleVars, rankVars, resolveVars, buildVars,
                  phaseVars, reportVars>>
exceptBuild == <<scoreVars, cycleVars, rankVars, readyVars, phaseVars, reportVars>>
exceptPhase == <<scoreVars, cycleVars, resolveVars, readyVars, buildVars,
               reportVars>>
exceptReport == <<scoreVars, cycleVars, rankVars, resolveVars, phaseVars>>

InitExcept(part) ==
    /\ IF part = "score" THEN TRUE ELSE IdleScore
    /\ IF part = "cycle" THEN TRUE ELSE IdleCycle
    /\ IF part \in {"rank", "phase"} THEN TRUE ELSE IdleRank
    /\ IF part \in {"resolve", "build"} THEN TRUE ELSE IdleResolve
    /\ IF part \in {"ready", "report"} THEN TRUE ELSE IdleReady
    /\ IF part \in {"build", "report"} THEN TRUE ELSE IdleBuild
    /\ IF part = "phase" THEN TRUE ELSE IdlePhase
    /\ IF part = "report" THEN TRUE ELSE IdleReport

----------------------------------------------------------------------------
(* Specification SpecScore: one iteration of the candidate loop, for every *)
(* header signal                                                           *)

ScoreHeaders ==
    { <<"a", ".", "h">>, <<"a", ".", "H">>, <<"a", ".", "h", "p", "p">>,
      <<"i", "/", "b", ".", "i", "n", "c">>,
      <<"x", ".", "h", "/", "c", ".", "h", "p", "p">> }

InitScore ==
    /\ pc = "score"
    /\ header \in ScoreHeaders
    /\ include_count \in 0..MaxFreq
    /\ macro_count \in 0..MaxMacro
    /\ in_cycle \in BOOLEAN
    /\ candidate = NoCandidate
    /\ InitExcept("score")

BuildCandidate ==
    /\ pc = "score"
    /\ candidate' = MakeCandidate(header, include_count, macro_count, in_cycle)
    /\ pc' = "scored"
    /\ UNCHANGED <<header, include_count, macro_count, in_cycle, exceptScore>>

NextScore == BuildCandidate

SpecScore == InitScore /\ [][NextScore]_vars

Scored == pc = "scored"

HasMacroHeavyLine(rationale) ==
    \E i \in DOMAIN rationale : rationale[i][1] = "macro-heavy: "

(* C1: every candidate's risk_score is an integer in 0..100, and risk_level *)
(* is "low" exactly when the score is <= 30, "medium" exactly when it is in *)
(* 31..65 and "high" exactly when it is >= 66.                              *)
C1_ScoreBoundedAndTiered ==
    Scored =>
        /\ candidate.risk_score \in 0..100
        /\ (candidate.risk_level = "low") <=> (candidate.risk_score <= 30)
        /\ (candidate.risk_level = "medium") <=>
               (candidate.risk_score >= 31 /\ candidate.risk_score <= 65)
        /\ (candidate.risk_level = "high") <=> (candidate.risk_score >= 66)

(* A candidate whose penalties add up to more than 100 and is clamped *)
C1_Witness ==
    /\ Scored
    /\ RawRisk(header, include_count, macro_count, in_cycle) > 100
    /\ candidate.risk_score = 100
    /\ candidate.risk_level = "high"

(* C4 as stated: a header with macro count >= 8 has a "macro-heavy"         *)
(* rationale line and a score of at least base + 40 = 50.                   *)
C4_MacroHeavyAtLeast50 ==
    (Scored /\ macro_count >= 8) =>
        /\ HasMacroHeavyLine(candidate.rationale)
        /\ candidate.risk_score >= BaseRisk + 40

(* C4 amended: a header with macro count >= 8 has a "macro-heavy" rationale *)
(* line and a score of at least base + 40 - 6 = 44; the score is at least   *)
(* 50 whenever the include frequency is at most 3.                          *)
C4_MacroHeavyAtLeast44 ==
    (Scored /\ macro_count >= 8) =>
        /\ HasMacroHeavyLine(candidate.rationale)
        /\ candidate.risk_score >= BaseRisk + 40 - 6
        /\ include_count <= 3 => candidate.risk_score >= BaseRisk + 40

(* A macro-heavy, highly reused header scoring exactly 44 *)
C4_Witness ==
    /\ Scored
    /\ macro_count = 8
    /\ include_count >= 4
    /\ candidate.risk_score = 44
    /\ HasMacroHeavyLine(candidate.rationale)

IsTwoTuDotH ==
    /\ Scored
    /\ PathSuffix(header) = <<".", "h">>
    /\ include_count = 2
    /\ ~in_cycle

(* C5 as stated: a .h header with at least 8 macros, include frequency 2    *)
(* and no cycle has risk_score >= 65, level "high" and the recommendation   *)
(* "defer until macro usage is reduced".                                    *)
C5_EightMacrosDefer ==
    (IsTwoTuDotH /\ macro_count >= 8) =>
        /\ candidate.macro_defines >= 8
        /\ candidate.risk_score >= 65
        /\ candidate.risk_level = "high"
        /\ candidate.recommendation = "defer until macro usage is reduced"

(* C5 amended: such a header with at least 10 macros has risk_score >= 65   *)
(* (70 or 75), level "high" and the recommendation "defer until macro usage *)
(* is reduced"; with 8 or 9 macros it scores 60 or 65, level "medium", and  *)
(* gets the recommendation "P2 named module pilot".                         *)
C5_TenMacrosDefer ==
    /\ (IsTwoTuDotH /\ macro_count >= 10) =>
          /\ candidate.macro_defines >= 8
          /\ candidate.risk_score >= 65
          /\ candidate.risk_score \in {70, 75}
          /\ candidate.risk_level = "high"
          /\ candidate.recommendation = "defer until macro usage is reduced"
    /\ (IsTwoTuDotH /\ macro_count \in {8, 9}) =>
          /\ candidate.macro_defines >= 8
          /\ candidate.risk_score = 20 + 5 * macro_count
          /\ candidate.risk_level = "medium"
          /\ candidate.recommendation = "P2 named module pilot"

C5_Witness ==
    /\ IsTwoTuDotH
    /\ macro_count = 10
    /\ candidate.risk_score = 70
    /\ candidate.recommendation = "defer until macro usage is reduced"

(* C6: a candidate's recommendation is "refactor include cycle before       *)
(* module migration" if and only if it is in a cycle, whatever its score; a *)
(* candidate in no cycle gets the header-unit recommendation when its score *)
(* is <= 30, the named-module one when 31..65 and "defer until macro usage  *)
(* is reduced" when > 65.                                                   *)
C6_CycleForcesRefactor ==
    Scored =>
        /\ (candidate.recommendation =
               "refactor include cycle before module migration")
             <=> candidate.in_cycle
        /\ candidate.in_cycle = in_cycle
        /\ ~candidate.in_cycle =>
              /\ candidate.risk_score <= 30 =>
                    candidate.recommendation = "P1 header unit candidate"
              /\ (candidate.risk_score >= 31 /\ candidate.risk_score <= 65) =>
                    candidate.recommendation = "P2 named module pilot"
              /\ candidate.risk_score > 65 =>
                    candidate.recommendation =
                        "defer until macro usage is reduced"

(* A cycle member whose score alone would give "defer" *)
C6_Witness ==
    /\ Scored
    /\ candidate.in_cycle
    /\ candidate.risk_score > 65
    /\ candidate.recommendation =
           "refactor include cycle before module migration"

----------------------------------------------------------------------------
(* Cycle detection.  Headers are numbered in the order they were inserted  *)
(* into header_graph, which is the order "for node in graph" visits them.  *)
(* The order in which "for child in graph.get(node, set())" yields a set's *)
(* members is not fixed by the code (set iteration follows the string hash *)
(* of the paths, seeded per process): any remaining child may come next.   *)

Nodes == 1..MaxNodes

EdgeCount(g) ==
    LET RECURSIVE Sum(_)
        Sum(S) == IF S = {} THEN 0
                  ELSE LET n == CHOOSE x \in S : TRUE
                       IN Cardinality(g[n]) + Sum(S \ {n})
    IN Sum(DOMAIN g)

(* The header graphs of the model: keys 1..k; an edge may point at a header *)
(* that never became a key (it vanished before the worklist reached it)     *)
Graphs ==
    UNION { {g \in [1..k -> SUBSET Nodes] : EdgeCount(g) <= MaxEdges} :
            k \in 1..MaxNodes }

(* dfs(node), up to its loop over the children *)
DfsEnter(node) ==
    /\ visited' = visited \cup {node}
    /\ on_stack' = on_stack \cup {node}
    /\ position' = [n \in DOMAIN position \cup {node} |->
                        IF n = node THEN Len(stack) ELSE position[n]]
    /\ stack' = Append(stack, node)
    /\ todo' = Append(todo, graph[node])

InitCycle ==
    /\ pc = "dfs"
    /\ InitExcept("cycle")
    /\ graph \in Graphs
    /\ cycle_nodes = {}
    /\ visited = {}
    /\ on_stack = {}
    /\ stack = <<>>
    /\ position = <<>>
    /\ todo = <<>>
    /\ root_idx = 1
    /\ run = 1
    /\ first_cycle_nodes = {}

(* for node in graph: if node not in visited: dfs(node) *)
CallRoot ==
    /\ pc = "dfs"
    /\ stack = <<>>
    /\ root_idx \in DOMAIN graph
    /\ root_idx \notin visited
    /\ DfsEnter(root_idx)
    /\ root_idx' = root_idx + 1
    /\ UNCHANGED <<pc, exceptCycle, graph, cycle_nodes, run, first_cycle_nodes>>

SkipRoot ==
    /\ pc = "dfs"
    /\ stack = <<>>
    /\ root_idx \in DOMAIN graph
    /\ root_idx \in visited
    /\ root_idx' = root_idx + 1
    /\ UNCHANGED <<pc, exceptCycle, graph, cycle_nodes, visited, on_stack, stack,
                   position, todo, run, first_cycle_nodes>>

(* The whole stack flagged instead of the part from the child's position *)
CycleSegmentWholeStack(stk, pos, child) == stk

(* start = position.get(child, 0); stack[start:] *)
CycleSegment(stk, pos, child) ==
    SubSeq(stk, (IF child \in DOMAIN pos THEN pos[child] ELSE 0) + 1, Len(stk))

(* One iteration of "for child in graph.get(node, set())" in the innermost *)
(* active call                                                             *)
VisitChild ==
    /\ pc = "dfs"
    /\ stack # <<>>
    /\ \E child \in todo[Len(todo)] :
         LET rest == [todo EXCEPT ![Len(todo)] = @ \ {child}]
         IN IF child \notin DOMAIN graph
            THEN /\ todo' = rest
                 /\ UNCHANGED <<cycle_nodes, visited, on_stack, stack, position>>
            ELSE IF child \notin visited
            THEN /\ visited' = visited \cup {child}
                 /\ on_stack' = on_stack \cup {child}
                 /\ position' = [n \in DOMAIN position \cup {child} |->
                                     IF n = child THEN Len(stack) ELSE position[n]]
                 /\ stack' = Append(stack, child)
                 /\ todo' = Append(rest, graph[child])
                 /\ UNCHANGED cycle_nodes
            ELSE IF child \in on_stack
            THEN /\ cycle_nodes' =
                      cycle_nodes \cup Range(CycleSegment(stack, position, child))
                 /\ todo' = rest
                 /\ UNCHANGED <<visited, on_stack, stack, position>>
            ELSE /\ todo' = rest
                 /\ UNCHANGED <<cycle_nodes, visited, on_stack, stack, position>>
    /\ UNCHANGED <<pc, exceptCycle, graph, root_idx, run, first_cycle_nodes>>

(* The loop of the innermost call is exhausted: stack.pop(),               *)
(* on_stack.remove(node), position.pop(node, None), return                 *)
DfsReturn ==
    /\ pc = "dfs"
    /\ stack # <<>>
    /\ todo[Len(todo)] = {}
    /\ LET node == stack[Len(stack)]
       IN /\ stack' = SubSeq(stack, 1, Len(stack) - 1)
          /\ on_stack' = on_stack \ {node}
          /\ position' = [n \in DOMAIN position \ {node} |-> position[n]]
          /\ todo' = SubSeq(todo, 1, Len(todo) - 1)
    /\ UNCHANGED <<pc, exceptCycle, graph, cycle_nodes, visited, root_idx, run,
                   first_cycle_nodes>>

(* return cycle_nodes *)
DetectReturn ==
    /\ pc = "dfs"
    /\ stack = <<>>
    /\ root_idx \notin DOMAIN graph
    /\ pc' = "done"
    /\ UNCHANGED <<exceptCycle, cycleVars>>

(* A second invocation on the same header graph: every local of            *)
(* _detect_cycle_nodes starts afresh                                       *)
SecondInvocation ==
    /\ pc = "done"
    /\ run = 1
    /\ first_cycle_nodes' = cycle_nodes
    /\ run' = 2
    /\ pc' = "dfs"
    /\ cycle_nodes' = {}
    /\ visited' = {}
    /\ on_stack' = {}
    /\ stack' = <<>>
    /\ position' = <<>>
    /\ todo' = <<>>
    /\ root_idx' = 1
    /\ UNCHANGED <<exceptCycle, graph>>

NextCycle ==
    \/ CallRoot
    \/ SkipRoot
    \/ VisitChild
    \/ DfsReturn
    \/ DetectReturn
    \/ SecondInvocation

SpecCycle == InitCycle /\ [][NextCycle]_vars

(* Edges between keys, the only edges the traversal follows *)
Succ(g, n) == IF n \in DOMAIN g THEN g[n] \cap DOMAIN g ELSE {}

(* The headers reachable from n by one or more edges *)
ReachableFrom(g, n) ==
    LET RECURSIVE Grow(_)
        Grow(S) == LET T == S \cup UNION {Succ(g, m) : m \in S}
                   IN IF T = S THEN S ELSE Grow(T)
    IN Grow(Succ(g, n))

OnSomeCycle(g, n) == n \in ReachableFrom(g, n)

(* C2 as stated: when _detect_cycle_nodes returns, every header that lies   *)
(* on some directed cycle of the graph is in the returned set, for every    *)
(* order of visiting each header's included headers.                        *)
C2_EveryCycleHeaderFlagged ==
    pc = "done" =>
        \A n \in DOMAIN graph : OnSomeCycle(graph, n) => n \in cycle_nodes

(* C3 as stated: two invocations on the same header graph report the same   *)
(* cycle headers (the same cycle_header_count and the same in_cycle flag    *)
(* for every header), whatever order each iterates the include sets in.     *)
C3_SameCycleReportTwice ==
    (pc = "done" /\ run = 2) =>
        /\ Cardinality(cycle_nodes) = Cardinality(first_cycle_nodes)
        /\ \A n \in DOMAIN graph :
              (n \in cycle_nodes) <=> (n \in first_cycle_nodes)

(* C12: every header in the cycle set lies on a directed cycle of the       *)
(* header graph.  The stack is a directed path of graph edges and each      *)
(* on-stack header's recorded position is its place in the stack, so the    *)
(* segment flagged at a back edge is a path closed by that edge; a header   *)
(* on no cycle is never flagged.                                            *)
C12_FlaggedHeadersLieOnCycles ==
    /\ \A i \in 1..(Len(stack) - 1) :
          stack[i] \in DOMAIN graph /\ stack[i + 1] \in graph[stack[i]]
    /\ on_stack = Range(stack)
    /\ DOMAIN position = on_stack
    /\ \A n \in on_stack : stack[position[n] + 1] = n
    /\ \A n \in cycle_nodes \cup first_cycle_nodes : OnSomeCycle(graph, n)

(* A finished run that flagged a cycle and left unflagged a header that     *)
(* leads into it: the flagged segment was shorter than the stack            *)
C12_Witness ==
    /\ pc = "done"
    /\ cycle_nodes # {}
    /\ \E n \in DOMAIN graph \ cycle_nodes :
          /\ ~OnSomeCycle(graph, n)
          /\ \E c \in cycle_nodes : c \in ReachableFrom(graph, n)

----------------------------------------------------------------------------
(* Candidate ranking.  Header paths are relative to the project root.      *)

(* ord() of the characters the model's paths use *)
Code(c) ==
    CASE c = "+" -> 43
      [] c = "-" -> 45
      [] c = "." -> 46
      [] c = "/" -> 47
      [] c = "H" -> 72
      [] c = "a" -> 97
      [] c = "b" -> 98
      [] c = "c" -> 99
      [] c = "d" -> 100
      [] c = "e" -> 101
      [] c = "h" -> 104
      [] c = "i" -> 105
      [] c = "l" -> 108
      [] c = "n" -> 110
      [] c = "p" -> 112
      [] c = "u" -> 117
      [] c = "x" -> 120

(* str < str: by code point at the first difference, a proper prefix first *)
StrLess(a, b) ==
    \E i \in 1..(Len(a) + 1) :
        /\ i <= Len(b)
        /\ \A j \in 1..(i - 1) : a[j] = b[j]
        /\ (i = Len(a) + 1 \/ Code(a[i]) < Code(b[i]))

(* The components of a relative path *)
RECURSIVE PathParts(_)
PathParts(p) ==
    LET slashes == {i \in DOMAIN p : p[i] = "/"}
    IN IF slashes = {} THEN <<p>>
       ELSE LET i == CHOOSE k \in slashes : \A j \in slashes : k <= j
            IN <<SubSeq(p, 1, i - 1)>> \o PathParts(SubSeq(p, i + 1, Len(p)))

(* Path < Path: the component lists compared as lists of strings *)
PathLess(p, q) ==
    LET a == PathParts(p)
        b == PathParts(q)
    IN \E i \in 1..(Len(a) + 1) :
        /\ i <= Len(b)
        /\ \A j \in 1..(i - 1) : a[j] = b[j]
        /\ (i = Len(a) + 1 \/ StrLess(a[i], b[i]))

(* sorted(all_project_headers) *)
RECURSIVE SortedPaths(_)
SortedPaths(S) ==
    IF S = {} THEN <<>>
    ELSE LET least == CHOOSE p \in S : \A q \in S \ {p} : PathLess(p, q)
         IN <<least>> \o SortedPaths(S \ {least})

(* The sort key of a candidate; the last component is a string *)
SortKeyNoHeader(c) ==
    <<c.include_frequency * 12 - c.risk_score, c.include_frequency,
      0 - c.risk_score, <<>> >>

SortKey(c) ==
    <<c.include_frequency * 12 - c.risk_score, c.include_frequency,
      0 - c.risk_score, c.header>>

(* tuple < tuple for two sort keys *)
KeyLess(k1, k2) ==
    \/ k1[1] < k2[1]
    \/ k1[1] = k2[1] /\ k1[2] < k2[2]
    \/ k1[1] = k2[1] /\ k1[2] = k2[2] /\ k1[3] < k2[3]
    \/ k1[1] = k2[1] /\ k1[2] = k2[2] /\ k1[3] = k2[3] /\ StrLess(k1[4], k2[4])

(* list.sort(key=..., reverse=True): descending by key, and stable, so     *)
(* elements with equal keys keep the order they had                        *)
RECURSIVE SortReverse(_)
SortReverse(list) ==
    IF list = <<>> THEN <<>>
    ELSE LET n == Len(list)
             front == SortReverse(SubSeq(list, 1, n - 1))
             x == list[n]
             \* x goes after every element whose key is not less than x's
             keep == {i \in 0..Len(front) :
                        \A j \in 1..i : ~KeyLess(SortKey(front[j]), SortKey(x))}
             at == CHOOSE i \in keep : \A j \in keep : j <= i
         IN SubSeq(front, 1, at) \o <<x>> \o SubSeq(front, at + 1, Len(front))

(* list[:n] for n >= 0 *)
Take(list, n) == SubSeq(list, 1, Min(n, Len(list)))

RankHeaders ==
    { <<"a", ".", "h">>, <<"a", ".", "h", "p", "p">>,
      <<"a", "/", "b", ".", "h", "p", "p">> }

RankMacros == {0, 4}

Signals == [freq : 1..MaxRankFreq, macros : RankMacros, cyc : BOOLEAN]

InitRank ==
    /\ pc = "candidates"
    /\ InitExcept("rank")
    /\ \E hs \in SUBSET RankHeaders : header_signals \in [hs -> Signals]
    /\ candidates = <<>>
    /\ top \in 0..(Cardinality(RankHeaders) + 1)

(* for header in sorted(all_project_headers): candidates.append(...) *)
BuildCandidates ==
    /\ pc = "candidates"
    /\ LET order == SortedPaths(DOMAIN header_signals)
       IN candidates' =
            [i \in DOMAIN order |->
                MakeCandidate(order[i], header_signals[order[i]].freq,
                              header_signals[order[i]].macros,
                              header_signals[order[i]].cyc)]
    /\ pc' = "sort"
    /\ UNCHANGED <<header_signals, top, exceptRank>>

(* candidates.sort(...); candidates = candidates[:top] *)
RankCandidates ==
    /\ pc = "sort"
    /\ candidates' = Take(SortReverse(candidates), top)
    /\ pc' = "ranked"
    /\ UNCHANGED <<header_signals, top, exceptRank>>

NextRank ==
    \/ BuildCandidates
    \/ RankCandidates

SpecRank == InitRank /\ [][NextRank]_vars

(* The candidate the run builds for a project header *)
CandidateOf(h) ==
    MakeCandidate(h, header_signals[h].freq, header_signals[h].macros,
                  header_signals[h].cyc)

(* The documented order: a comes before b *)
RanksBefore(a, b) ==
    LET ka == a.include_frequency * 12 - a.risk_score
        kb == b.include_frequency * 12 - b.risk_score
    IN \/ ka > kb
       \/ ka = kb /\ a.include_frequency > b.include_frequency
       \/ ka = kb /\ a.include_frequency = b.include_frequency
             /\ a.risk_score < b.risk_score
       \/ ka = kb /\ a.include_frequency = b.include_frequency
             /\ a.risk_score = b.risk_score /\ StrLess(b.header, a.header)

(* C7: the reported candidates are the first top entries of the project     *)
(* headers' candidates ordered by include_frequency*12 - risk_score         *)
(* descending, then include_frequency descending, then risk_score           *)
(* ascending, then header path descending; the order is strict and total,   *)
(* so it is the same whatever order the candidates were generated in.       *)
C7_RankedByDocumentedOrder ==
    pc = "ranked" =>
        LET all == {CandidateOf(h) : h \in DOMAIN header_signals}
            shown == Range(candidates)
        IN /\ \A a, b \in all : a # b => (RanksBefore(a, b) <=> ~RanksBefore(b, a))
           /\ Len(candidates) = Min(top, Cardinality(all))
           /\ shown \subseteq all
           /\ \A i, j \in DOMAIN candidates :
                 i < j => RanksBefore(candidates[i], candidates[j])
           /\ \A a \in shown : \A b \in all \ shown : RanksBefore(a, b)

(* Three candidates cut to two: the first two tie on the primary key and    *)
(* are ordered by include frequency, and the last two of the full order tie *)
(* on every numeric key and are ordered by path                             *)
C7_Witness ==
    /\ pc = "ranked"
    /\ top = 2
    /\ Cardinality(DOMAIN header_signals) = 3
    /\ Len(candidates) = 2
    /\ candidates[1].include_frequency * 12 - candidates[1].risk_score
         = candidates[2].include_frequency * 12 - candidates[2].risk_score
    /\ candidates[1].include_frequency > candidates[2].include_frequency
    /\ \E h \in DOMAIN header_signals :
         /\ CandidateOf(h) \notin Range(candidates)
         /\ CandidateOf(h).include_frequency = candidates[2].include_frequency
         /\ CandidateOf(h).risk_score = candidates[2].risk_score
         /\ StrLess(h, candidates[2].header)

----------------------------------------------------------------------------
(* Paths and include resolution.  An absolute path is the sequence of its  *)
(* components, each a string of characters; the tree has no symbolic       *)
(* links, so Path.resolve() only removes ".." components.                  *)

P == <<"p">>
SRC == <<"s", "r", "c">>
INC == <<"i", "n", "c">>
EXT == <<"e", "x", "t">>
A_HPP == <<"a", ".", "h", "p", "p">>
B_H == <<"b", ".", "h">>
X_H == <<"x", ".", "h">>
M_CPP == <<"m", ".", "c", "p", "p">>
N_CPP == <<"n", ".", "c", "p", "p">>
DOTDOT == <<".", ".">>

(* str.split("/") *)
RECURSIVE SplitSlash(_)
SplitSlash(str) ==
    LET slashes == {i \in DOMAIN str : str[i] = "/"}
    IN IF slashes = {} THEN <<str>>
       ELSE LET i == CHOOSE k \in slashes : \A j \in slashes : k <= j
            IN <<SubSeq(str, 1, i - 1)>> \o SplitSlash(SubSeq(str, i + 1, Len(str)))

(* Path(include_name): whether it is absolute, and its components; empty   *)
(* and "." components are dropped, ".." components are kept                *)
ParsePath(str) ==
    [abs |-> str # <<>> /\ str[1] = "/",
     parts |-> SelectSeq(SplitSlash(str), LAMBDA c : c # <<>> /\ c # <<".">>)]

(* directory / Path(include_name): an absolute right operand replaces the  *)
(* left one                                                                *)
JoinPath(dir, ip) == IF ip.abs THEN ip.parts ELSE dir \o ip.parts

(* Path.parent *)
Parent(path) == SubSeq(path, 1, Len(path) - 1)

(* Path.resolve(): each ".." removes the component before it *)
RECURSIVE ResolvePath(_)
ResolvePath(path) ==
    IF path = <<>> THEN <<>>
    ELSE LET front == ResolvePath(SubSeq(path, 1, Len(path) - 1))
             last == path[Len(path)]
         IN IF last = DOTDOT
            THEN SubSeq(front, 1, Len(front) - 1)
            ELSE Append(front, last)

IsPrefix(a, b) == Len(a) <= Len(b) /\ SubSeq(b, 1, Len(a)) = a

(* Path.exists(): the path names a file of the tree or a directory above one *)
Exists(fs, path) == \E f \in fs : IsPrefix(ResolvePath(path), f)

(* The first element of a list of paths that exists, or None *)
FirstExisting(fs, list) ==
    LET hits == {i \in DOMAIN list : Exists(fs, list[i])}
    IN IF hits = {} THEN None
       ELSE Some(list[CHOOSE i \in hits : \A j \in hits : i <= j])

ResolveIncludeDirsFirst(fs, name, kind, from, dirs) ==
    LET include_path == ParsePath(name)
        candidates_ ==
            [i \in DOMAIN dirs |-> ResolvePath(JoinPath(dirs[i], include_path))]
            \o (IF kind = "\""
                THEN <<ResolvePath(JoinPath(Parent(from), include_path))>>
                ELSE <<>>)
    IN IF include_path.abs /\ Exists(fs, include_path.parts)
       THEN Some(ResolvePath(include_path.parts))
       ELSE FirstExisting(fs, candidates_)

ResolveInclude(fs, name, kind, from, dirs) ==
    LET include_path == ParsePath(name)
        candidates_ ==
            (IF kind = "\""
             THEN <<ResolvePath(JoinPath(Parent(from), include_path))>>
             ELSE <<>>)
            \o [i \in DOMAIN dirs |-> ResolvePath(JoinPath(dirs[i], include_path))]
    IN IF include_path.abs /\ Exists(fs, include_path.parts)
       THEN Some(ResolvePath(include_path.parts))
       ELSE FirstExisting(fs, candidates_)

(* Specification SpecResolve: one call of _resolve_include, for every tree, *)
(* spelling, delimiter, requesting file and search list in bounds           *)

ResolveDirs == { <<P, SRC>>, <<P, INC>>, <<EXT>> }

ResolveTargets == { <<P, SRC, A_HPP>>, <<P, INC, A_HPP>>, <<EXT, A_HPP>> }

ResolveRequesters == { <<P, SRC, M_CPP>>, <<P, INC, B_H>> }

ResolveSpellings ==
    { A_HPP,
      <<".", ".", "/", "i", "n", "c", "/", "a", ".", "h", "p", "p">>,
      <<"/", "e", "x", "t", "/", "a", ".", "h", "p", "p">> }

(* Lists of distinct directories, as _unique_paths leaves them *)
DirLists ==
    UNION { {l \in [1..n -> ResolveDirs] :
                \A i, j \in 1..n : i # j => l[i] # l[j]} : n \in 0..MaxDirs }

InitResolve ==
    /\ pc = "resolve"
    /\ InitExcept("resolve")
    /\ \E present \in SUBSET ResolveTargets : files = present \cup ResolveRequesters
    /\ include_name \in ResolveSpellings
    /\ include_kind \in {"<", "\""}
    /\ including_file \in ResolveRequesters
    /\ include_dirs \in DirLists
    /\ resolved = None

CallResolveInclude ==
    /\ pc = "resolve"
    /\ resolved' = ResolveInclude(files, include_name, include_kind,
                                  including_file, include_dirs)
    /\ pc' = "resolved"
    /\ UNCHANGED <<files, include_name, include_kind, including_file,
                   include_dirs, exceptResolve>>

NextResolve == CallResolveInclude

SpecResolve == InitResolve /\ [][NextResolve]_vars

(* The candidate paths of a directive in the documented precedence order *)
PrecedenceOrder(name, kind, from, dirs) ==
    LET ip == ParsePath(name)
    IN IF ip.abs THEN <<ip.parts>>
       ELSE (IF kind = "\"" THEN <<Parent(from) \o ip.parts>> ELSE <<>>)
            \o [i \in DOMAIN dirs |-> dirs[i] \o ip.parts]

(* C8: _resolve_include returns the first existing path in the order: the   *)
(* spelling itself when absolute; then, for a quoted include only, the path *)
(* relative to the requesting file's directory; then each search directory  *)
(* in the order given.  An angle include is only ever found through a       *)
(* search directory, and the result is None exactly when no candidate       *)
(* exists.                                                                  *)
C8_FirstExistingInPrecedence ==
    pc = "resolved" =>
        LET order == PrecedenceOrder(include_name, include_kind,
                                     including_file, include_dirs)
            hits == {i \in DOMAIN order : Exists(files, order[i])}
        IN /\ resolved.found <=> hits # {}
           /\ resolved.found =>
                \E i \in hits : /\ \A j \in hits : i <= j
                                /\ resolved.path = ResolvePath(order[i])
           /\ (resolved.found /\ include_kind = "<"
                /\ ~ParsePath(include_name).abs) =>
                \E i \in DOMAIN include_dirs :
                    resolved.path =
                        ResolvePath(include_dirs[i] \o ParsePath(include_name).parts)

(* A quoted include found beside the requesting file although the first     *)
(* search directory holds a file of the same name                           *)
C8_Witness ==
    /\ pc = "resolved"
    /\ include_kind = "\""
    /\ include_name = A_HPP
    /\ including_file = <<P, SRC, M_CPP>>
    /\ include_dirs # <<>>
    /\ include_dirs[1] = <<P, INC>>
    /\ <<P, INC, A_HPP>> \in files
    /\ resolved = Some(<<P, SRC, A_HPP>>)

----------------------------------------------------------------------------
(* Language-standard flags and the readiness checks *)

STD_EQ == <<"-", "s", "t", "d", "=">>
STD_COLON == <<"/", "s", "t", "d", ":">>
UNKNOWN == <<"u", "n", "k", "n", "o", "w", "n">>
CXX == <<"c", "+", "+">>
GNUXX == <<"g", "n", "u", "+", "+">>

StartsWith(str, prefix) ==
    Len(prefix) <= Len(str) /\ SubSeq(str, 1, Len(prefix)) = prefix

(* sub in str *)
Contains(str, sub) ==
    \E i \in 1..(Len(str) - Len(sub) + 1) :
        SubSeq(str, i, i + Len(sub) - 1) = sub

Digits == {"0", "1", "2", "3", "4", "5", "6", "7", "8", "9"}

DigitValue(c) ==
    CASE c = "0" -> 0 [] c = "1" -> 1 [] c = "2" -> 2 [] c = "3" -> 3
      [] c = "4" -> 4 [] c = "5" -> 5 [] c = "6" -> 6 [] c = "7" -> 7
      [] c = "8" -> 8 [] c = "9" -> 9

(* int() of a string of digits *)
RECURSIVE ToInt(_)
ToInt(str) ==
    IF str = <<>> THEN 0
    ELSE 10 * ToInt(SubSeq(str, 1, Len(str) - 1)) + DigitValue(str[Len(str)])

(* re.search(r"\+\+(\d+)", value).group(1): the digits of the leftmost "++" *)
(* that a digit follows, as many as there are; <<>> when there is no match  *)
PlusPlusDigits(value) ==
    LET starts == {i \in 1..(Len(value) - 2) :
                      /\ value[i] = "+"
                      /\ value[i + 1] = "+"
                      /\ value[i + 2] \in Digits}
    IN IF starts = {} THEN <<>>
       ELSE LET i == CHOOSE k \in starts : \A j \in starts : k <= j
                ends == {e \in (i + 2)..Len(value) :
                            \A k \in (i + 2)..e : value[k] \in Digits}
                e == CHOOSE k \in ends : \A j \in ends : j <= k
            IN SubSeq(value, i + 2, e)

(* The first -std= or /std: token's value, lower-cased, or "unknown" *)
RECURSIVE ExtractStdFlag(_)
ExtractStdFlag(args) ==
    IF args = <<>> THEN UNKNOWN
    ELSE IF StartsWith(args[1], STD_EQ)
    THEN LowerStr(SubSeq(args[1], Len(STD_EQ) + 1, Len(args[1])))
    ELSE IF StartsWith(args[1], STD_COLON)
    THEN LowerStr(SubSeq(args[1], Len(STD_COLON) + 1, Len(args[1])))
    ELSE ExtractStdFlag(Tail(args))

MinCxxVersion == 20

IsCxx20OrNewer(std_flag) ==
    LET value == LowerStr(std_flag)
    IN IF value = UNKNOWN THEN FALSE
       ELSE IF Contains(value, CXX \o <<"2", "a">>)
               \/ Contains(value, CXX \o <<"2", "b">>)
       THEN TRUE
       ELSE LET digits == PlusPlusDigits(value)
            IN digits # <<>> /\ ToInt(digits) >= MinCxxVersion

(* _build_readiness_checks, from the flags and the three counts *)
BuildReadinessChecks(flags, cycles, heavy, unresolved) ==
    LET non_cxx20 == {i \in DOMAIN flags : ~IsCxx20OrNewer(flags[i])}
    IN << [title |-> "C++20 compiler mode coverage",
           status |-> IF non_cxx20 = {} THEN "pass" ELSE "warn",
           details |-> IF non_cxx20 = {}
                       THEN <<"All translation units appear to use C++20+ flags">>
                       ELSE <<ToString(Cardinality(non_cxx20)),
                              " TU(s) are below C++20 or missing -std flag">>],
          [title |-> "Include cycle cleanup",
           status |-> IF cycles = 0 THEN "pass" ELSE "warn",
           details |-> IF cycles = 0
                       THEN <<"No include cycles detected">>
                       ELSE <<ToString(cycles), " header(s) are part of cycle(s)">>],
          [title |-> "Macro-heavy header reduction",
           status |-> IF heavy = 0 THEN "pass" ELSE "warn",
           details |-> IF heavy = 0
                       THEN <<"No macro-heavy headers detected">>
                       ELSE <<ToString(heavy),
                              " header(s) have >= 8 #define directives">>],
          [title |-> "Include resolution quality",
           status |-> IF unresolved = 0 THEN "pass" ELSE "warn",
           details |-> IF unresolved = 0
                       THEN <<"All scanned includes resolved">>
                       ELSE <<ToString(unresolved),
                              " unresolved include(s); verify include paths">>] >>

COMPILER == <<"c", "+", "+">>

(* The -std values of the model, as written on the command line *)
StdValues ==
    { CXX \o <<"9", "8">>, CXX \o <<"0", "3">>, CXX \o <<"1", "1">>,
      CXX \o <<"1", "4">>, CXX \o <<"1", "7">>, CXX \o <<"2", "0">>,
      CXX \o <<"2", "3">>, CXX \o <<"2", "a">>, CXX \o <<"2", "b">>,
      GNUXX \o <<"2", "0">>, <<"C", "+", "+", "2", "0">> }

(* Argument lists: no standard flag, or one in either spelling *)
ArgLists ==
    {<<COMPILER>>}
    \cup {<<COMPILER, STD_EQ \o v>> : v \in StdValues}
    \cup {<<COMPILER, STD_COLON \o CXX \o <<"2", "0">> >>}

InitReady ==
    /\ pc = "collect"
    /\ InitExcept("ready")
    /\ \E n \in 1..MaxTUs : tu_args \in [1..n -> ArgLists]
    /\ std_flags = <<>>
    /\ cycle_count \in 0..MaxCount
    /\ heavy_count \in 0..MaxCount
    /\ unresolved_count \in 0..MaxCount
    /\ readiness_checks = <<>>

(* _collect_translation_units: one TranslationUnit per entry *)
CollectTranslationUnits ==
    /\ pc = "collect"
    /\ std_flags' = [i \in DOMAIN tu_args |-> ExtractStdFlag(tu_args[i])]
    /\ pc' = "readiness"
    /\ UNCHANGED <<tu_args, cycle_count, heavy_count, unresolved_count,
                   readiness_checks, exceptReady>>

CallBuildReadinessChecks ==
    /\ pc = "readiness"
    /\ readiness_checks' =
         BuildReadinessChecks(std_flags, cycle_count, heavy_count, unresolved_count)
    /\ pc' = "ready"
    /\ UNCHANGED <<tu_args, std_flags, cycle_count, heavy_count,
                   unresolved_count, exceptReady>>

NextReady ==
    \/ CollectTranslationUnits
    \/ CallBuildReadinessChecks

SpecReady == InitReady /\ [][NextReady]_vars

(* The standards older than C++20, in the spellings of the model *)
OlderThanCxx20 ==
    { CXX \o <<"9", "8">>, CXX \o <<"0", "3">>, CXX \o <<"1", "1">>,
      CXX \o <<"1", "4">>, CXX \o <<"1", "7">> }

(* The translation units with no standard flag or with an older standard *)
BelowCxx20 ==
    {i \in DOMAIN std_flags :
        std_flags[i] = UNKNOWN \/ std_flags[i] \in OlderThanCxx20}

(* C10 as stated: the check "C++20 compiler mode coverage" passes exactly   *)
(* when every translation unit's flag denotes C++20 or newer; a unit with   *)
(* no -std flag or an older standard (c++98, c++03, c++11, c++14, c++17)    *)
(* makes it "warn", and the count in the message is the number of such      *)
(* units.                                                                   *)
C10_Cxx20CoverageCheck ==
    pc = "ready" =>
        LET check == readiness_checks[1]
        IN /\ check.title = "C++20 compiler mode coverage"
           /\ (check.status = "pass") <=> (BelowCxx20 = {})
           /\ BelowCxx20 # {} =>
                /\ check.status = "warn"
                /\ check.details[1] = ToString(Cardinality(BelowCxx20))

----------------------------------------------------------------------------
(* The graph build of analyze_compile_commands.  The run reads a fixed     *)
(* tree of two translation units and three headers; which include          *)
(* directives each file holds is drawn as the run reads the file (every    *)
(* file is read at most once in a run, so this is a choice of the tree).   *)

HEADER_SUFFIXES ==
    { <<".", "h">>, <<".", "h", "h">>, <<".", "h", "p", "p">>,
      <<".", "h", "x", "x">>, <<".", "i", "n", "c">>, <<".", "i", "p", "p">> }

IsHeader(path) ==
    /\ path # <<>>
    /\ \E suffix \in {PathSuffix(path[Len(path)])} :
          LowerStr(suffix) \in HEADER_SUFFIXES

(* Every path taken for a project path *)
IsProjectPathAnywhere(path, root) == TRUE

IsProjectPath(path, root) == IsPrefix(ResolvePath(root), ResolvePath(path))

(* "/".join(parts) *)
RECURSIVE JoinSlash(_)
JoinSlash(parts) ==
    IF parts = <<>> THEN <<>>
    ELSE IF Len(parts) = 1 THEN parts[1]
    ELSE parts[1] \o <<"/">> \o JoinSlash(Tail(parts))

(* The path relative to the root in posix form, or the whole path when it  *)
(* is not under the root                                                   *)
RelativeDisplay(path, root) ==
    LET p == ResolvePath(path)
        r == ResolvePath(root)
    IN IF IsPrefix(r, p) THEN JoinSlash(SubSeq(p, Len(r) + 1, Len(p)))
       ELSE <<"/">> \o JoinSlash(path)

Token(kind, name) ==
    IF kind = "<" THEN <<"<">> \o name \o <<">">>
    ELSE <<"\"">> \o name \o <<"\"">>

(* _unique_paths: first occurrences, in order *)
RECURSIVE UniquePaths(_)
UniquePaths(paths) ==
    IF paths = <<>> THEN <<>>
    ELSE LET front == UniquePaths(SubSeq(paths, 1, Len(paths) - 1))
             last == ResolvePath(paths[Len(paths)])
         IN IF last \in Range(front) THEN front ELSE Append(front, last)

(* os.path.commonpath: the longest common leading components *)
CommonPath(paths) ==
    LET one == CHOOSE p \in paths : TRUE
        lens == {n \in 0..Len(one) :
                    \A q \in paths : IsPrefix(SubSeq(one, 1, n), q)}
    IN SubSeq(one, 1, CHOOSE n \in lens : \A k \in lens : k <= n)

InferProjectRoot(fs, paths, fallback) ==
    LET existing == {paths[i] : i \in {j \in DOMAIN paths : Exists(fs, paths[j])}}
    IN IF existing = {} THEN ResolvePath(fallback)
       ELSE LET common == CommonPath(existing)
            IN IF common \in fs THEN Parent(common) ELSE common

(* [x for list in lists for x in list] *)
RECURSIVE Flatten(_)
Flatten(lists) ==
    IF lists = <<>> THEN <<>> ELSE Head(lists) \o Flatten(Tail(lists))

(* Counter[key] += 1 *)
Increment(counter, key) ==
    [k \in DOMAIN counter \cup {key} |->
        IF k = key
        THEN (IF key \in DOMAIN counter THEN counter[key] ELSE 0) + 1
        ELSE counter[k]]

(* unresolved_includes after a directive that resolved to nothing *)
RecordUnresolvedAnyKind(list, kind, name, from, root) ==
    Append(list, [from |-> RelativeDisplay(from, root),
                  include |-> Token(kind, name)])

RecordUnresolved(list, kind, name, from, root) ==
    IF kind = "\""
    THEN Append(list, [from |-> RelativeDisplay(from, root),
                       include |-> Token(kind, name)])
    ELSE list

(* The tree *)
BuildTree ==
    { <<P, SRC, M_CPP>>, <<P, SRC, N_CPP>>, <<P, INC, A_HPP>>, <<P, INC, B_H>>,
      <<EXT, X_H>> }

(* The translation units: m.cpp is compiled with -I /p/inc, n.cpp with no  *)
(* search directory                                                        *)
BuildTUs ==
    << [path |-> <<P, SRC, M_CPP>>, include_dirs |-> << <<P, INC>> >>],
       [path |-> <<P, SRC, N_CPP>>, include_dirs |-> <<>>] >>

(* The directory of compile_commands.json *)
DatabaseDir == <<P>>

(* The include directives a file may hold *)
BuildDirectives ==
    { [kind |-> "\"", name |-> A_HPP],
      [kind |-> "<", name |-> A_HPP],
      [kind |-> "\"", name |-> B_H],
      [kind |-> "\"", name |-> N_CPP],
      [kind |-> "\"", name |-> <<"/">> \o EXT \o <<"/">> \o X_H] }

HeavyDefines == MacroHeavyMin

(* _count_defines: b.h holds 8 #define lines, the other headers none *)
CountDefines(fs, path) ==
    IF ~Exists(fs, path) \/ ~IsHeader(path) THEN 0
    ELSE IF path = <<P, INC, B_H>> THEN HeavyDefines
    ELSE 0

InitBuild ==
    /\ pc = "start"
    /\ InitExcept("build")
    /\ files = BuildTree
    /\ include_name = <<>>
    /\ include_kind = ""
    /\ including_file = <<>>
    /\ include_dirs = <<>>
    /\ resolved = None
    /\ IdleBuild

(* _unique_paths([inc for tu in tus for inc in tu.include_dirs]) *)
UnitIncludeDirs ==
    UniquePaths(Flatten([i \in 1..Len(BuildTUs) |-> BuildTUs[i].include_dirs]))

(* Lines 88-102: the search directory union, the project root, the empty   *)
(* accumulators                                                            *)
Prepare ==
    /\ pc = "start"
    /\ all_include_dirs' = UnitIncludeDirs
    /\ project_root' =
          InferProjectRoot(files,
                           [i \in 1..Len(BuildTUs) |-> BuildTUs[i].path]
                               \o UnitIncludeDirs,
                           DatabaseDir)
    /\ tu_idx' = 1
    /\ pc' = "tus"
    /\ UNCHANGED <<resolveVars, include_tokens, include_frequency,
                   unresolved_includes, header_graph, macro_counts, header_queue,
                   scanned_headers, scan_log, lines_read, exceptBuild>>

(* for tu in tus: includes = _parse_includes(tu.path) *)
ParseTU ==
    /\ pc = "tus"
    /\ tu_idx \in DOMAIN BuildTUs
    /\ including_file' = BuildTUs[tu_idx].path
    /\ include_dirs' = BuildTUs[tu_idx].include_dirs
    /\ pc' = "tu_includes"
    /\ UNCHANGED <<files, include_name, include_kind, resolved, buildVars,
                   exceptBuild>>

(* One iteration of the loop over a translation unit's directives *)
TUInclude ==
    /\ pc = "tu_includes"
    /\ lines_read < MaxLines
    /\ \E d \in BuildDirectives :
         LET found == ResolveInclude(files, d.name, d.kind, including_file,
                                     include_dirs)
         IN /\ include_kind' = d.kind
            /\ include_name' = d.name
            /\ resolved' = found
            /\ include_tokens' = Increment(include_tokens, Token(d.kind, d.name))
            /\ IF ~found.found
               THEN /\ unresolved_includes' =
                         RecordUnresolved(unresolved_includes, d.kind, d.name,
                                          including_file, project_root)
                    /\ UNCHANGED <<include_frequency, header_queue>>
               ELSE IF IsHeader(found.path)
               THEN /\ include_frequency' = Increment(include_frequency, found.path)
                    /\ header_queue' =
                         IF IsProjectPath(found.path, project_root)
                         THEN Append(header_queue, found.path)
                         ELSE header_queue
                    /\ UNCHANGED unresolved_includes
               ELSE UNCHANGED <<unresolved_includes, include_frequency,
                                header_queue>>
    /\ lines_read' = lines_read + 1
    /\ UNCHANGED <<pc, files, including_file, include_dirs, all_include_dirs,
                   project_root, header_graph, macro_counts, scanned_headers, scan_log,
                   tu_idx, exceptBuild>>

(* The unit's directives are exhausted: next unit *)
TUEnd ==
    /\ pc = "tu_includes"
    /\ tu_idx' = tu_idx + 1
    /\ pc' = "tus"
    /\ UNCHANGED <<resolveVars, all_include_dirs, project_root, include_tokens,
                   include_frequency, unresolved_includes, header_graph,
                   macro_counts, header_queue, scanned_headers, scan_log, lines_read,
                   exceptBuild>>

(* The loop over tus is exhausted: scanned_headers = set() *)
StartDrain ==
    /\ pc = "tus"
    /\ tu_idx \notin DOMAIN BuildTUs
    /\ pc' = "drain"
    /\ UNCHANGED <<resolveVars, buildVars, exceptBuild>>

(* A popped header is skipped only when it is missing *)
SkipsHeaderMissingOnly(h, scanned, fs) == ~Exists(fs, h)

(* header in scanned_headers or not header.exists() *)
SkipsHeader(h, scanned, fs) == h \in scanned \/ ~Exists(fs, h)

(* header = header_queue.popleft(); already scanned or missing: continue *)
PopSkip ==
    /\ pc = "drain"
    /\ header_queue # <<>>
    /\ SkipsHeader(Head(header_queue), scanned_headers, files)
    /\ header_queue' = Tail(header_queue)
    /\ UNCHANGED <<pc, resolveVars, all_include_dirs, project_root,
                   include_tokens, include_frequency, unresolved_includes,
                   header_graph, macro_counts, scanned_headers, scan_log, tu_idx,
                   lines_read, exceptBuild>>

(* header = header_queue.popleft(); mark it scanned, count its defines,    *)
(* parse its includes                                                      *)
PopScan ==
    /\ pc = "drain"
    /\ header_queue # <<>>
    /\ LET h == Head(header_queue)
       IN /\ ~SkipsHeader(h, scanned_headers, files)
          /\ header_queue' = Tail(header_queue)
          /\ scanned_headers' = scanned_headers \cup {h}
          /\ scan_log' = Append(scan_log, h)
          /\ header_graph' =
                [k \in DOMAIN header_graph \cup {h} |->
                    IF k \in DOMAIN header_graph THEN header_graph[k] ELSE {}]
          /\ macro_counts' =
                [k \in DOMAIN macro_counts \cup {h} |->
                    IF k = h THEN CountDefines(files, h) ELSE macro_counts[k]]
          /\ including_file' = h
          /\ include_dirs' = all_include_dirs
    /\ pc' = "header_includes"
    /\ UNCHANGED <<files, include_name, include_kind, resolved,
                   all_include_dirs, project_root, include_tokens,
                   include_frequency, unresolved_includes, tu_idx, lines_read,
                   exceptBuild>>

(* One iteration of the loop over a scanned header's directives *)
HeaderInclude ==
    /\ pc = "header_includes"
    /\ lines_read < MaxLines
    /\ \E d \in BuildDirectives :
         LET found == ResolveInclude(files, d.name, d.kind, including_file,
                                     all_include_dirs)
         IN /\ include_kind' = d.kind
            /\ include_name' = d.name
            /\ resolved' = found
            /\ include_tokens' = Increment(include_tokens, Token(d.kind, d.name))
            /\ IF ~found.found
               THEN /\ unresolved_includes' =
                         RecordUnresolved(unresolved_includes, d.kind, d.name,
                                          including_file, project_root)
                    /\ UNCHANGED <<include_frequency, header_graph, header_queue>>
               ELSE IF ~IsHeader(found.path)
               THEN UNCHANGED <<unresolved_includes, include_frequency,
                                header_graph, header_queue>>
               ELSE /\ include_frequency' = Increment(include_frequency, found.path)
                    /\ IF IsProjectPath(found.path, project_root)
                       THEN /\ header_graph' =
                                 [header_graph EXCEPT ![including_file] =
                                     @ \cup {found.path}]
                            /\ header_queue' = Append(header_queue, found.path)
                       ELSE UNCHANGED <<header_graph, header_queue>>
                    /\ UNCHANGED unresolved_includes
    /\ lines_read' = lines_read + 1
    /\ UNCHANGED <<pc, files, including_file, include_dirs, all_include_dirs,
                   project_root, macro_counts, scanned_headers, scan_log, tu_idx,
                   exceptBuild>>

(* The header's directives are exhausted: back to the worklist *)
HeaderEnd ==
    /\ pc = "header_includes"
    /\ pc' = "drain"
    /\ UNCHANGED <<resolveVars, buildVars, exceptBuild>>

(* The worklist is empty: the graph is built *)
DrainDone ==
    /\ pc = "drain"
    /\ header_queue = <<>>
    /\ pc' = "built"
    /\ UNCHANGED <<resolveVars, buildVars, exceptBuild>>

NextBuild ==
    \/ Prepare
    \/ ParseTU
    \/ TUInclude
    \/ TUEnd
    \/ StartDrain
    \/ PopSkip
    \/ PopScan
    \/ HeaderInclude
    \/ HeaderEnd
    \/ DrainDone

SpecBuild == InitBuild /\ [][NextBuild]_vars

(* A step that reads one include directive; the directive read is          *)
(* (include_kind', include_name'), the requesting file is including_file   *)
DirectiveStep == lines_read' = lines_read + 1

(* No candidate path of the directive just read exists *)
ResolvesToNothing ==
    LET order == PrecedenceOrder(include_name', include_kind', including_file,
                                 include_dirs)
    IN \A i \in DOMAIN order : ~Exists(files, order[i])

(* The requesting file's path below the project root, "/"-separated *)
ProjectRelative(path) ==
    JoinSlash(SubSeq(path, Len(project_root) + 1, Len(path)))

(* C9: every include directive read from a translation unit or a scanned    *)
(* header that resolves to no existing file appends exactly one entry to    *)
(* the unresolved list when it is quoted, with the exact "name" spelling    *)
(* and the requesting file's project-relative path, and appends nothing     *)
(* when it is angle-bracket; a directive that resolves appends nothing; an  *)
(* unresolved include adds no graph edge, enqueues nothing and leaves the   *)
(* run in the same loop.                                                    *)
C9_UnresolvedQuotedRecorded ==
    [][DirectiveStep =>
        /\ unresolved_includes' =
             IF ResolvesToNothing /\ include_kind' = "\""
             THEN Append(unresolved_includes,
                         [from |-> ProjectRelative(including_file),
                          include |-> <<"\"">> \o include_name' \o <<"\"">>])
             ELSE unresolved_includes
        /\ ResolvesToNothing =>
             /\ header_graph' = header_graph
             /\ header_queue' = header_queue
             /\ include_frequency' = include_frequency
             /\ pc' = pc
    ]_vars

(* A finished run in which n.cpp's angle include of a.hpp resolved to       *)
(* nothing and left no entry, while the header a.hpp's quoted include of    *)
(* n.cpp did and is the only entry                                          *)
C9_Witness ==
    /\ pc = "built"
    /\ Token("<", A_HPP) \in DOMAIN include_tokens
    /\ Token("\"", A_HPP) \in DOMAIN include_tokens
    /\ include_tokens[Token("\"", A_HPP)] = 1
    /\ <<P, INC, A_HPP>> \in scanned_headers
    /\ <<P, INC, A_HPP>> \in DOMAIN include_frequency
    /\ include_frequency[<<P, INC, A_HPP>>] = 1
    /\ unresolved_includes =
         << [from |-> <<"i", "n", "c", "/", "a", ".", "h", "p", "p">>,
             include |-> <<"\"", "n", ".", "c", "p", "p", "\"">>] >>

(* The run of the graph build to completion.  The program is one thread     *)
(* that always takes its next step, and a loop over a file's directives     *)
(* ends when the file does: the steps that read no directive are taken      *)
(* whenever they stay possible.                                             *)
AdvanceBuild ==
    \/ Prepare
    \/ ParseTU
    \/ TUEnd
    \/ StartDrain
    \/ PopSkip
    \/ PopScan
    \/ HeaderEnd
    \/ DrainDone

SpecBuildLive == InitBuild /\ [][NextBuild]_vars /\ WF_vars(AdvanceBuild)

(* The project headers of the tree *)
ProjectHeaders ==
    {f \in files : IsHeader(f) /\ IsProjectPath(f, project_root)}

(* C13: the drain of the header worklist ends, on a tree with an include    *)
(* cycle and a diamond too; a header is scanned (added to scanned_headers,  *)
(* macro-counted, its directives parsed) at most once however often it was  *)
(* enqueued, and the scans number at most the distinct project headers.     *)
C13_DrainTerminatesScanOnce ==
    /\ <>(pc = "built")
    /\ [](/\ \A i, j \in DOMAIN scan_log : scan_log[i] = scan_log[j] => i = j
          /\ Range(scan_log) = scanned_headers
          /\ DOMAIN macro_counts = scanned_headers
          /\ pc # "start" => Len(scan_log) <= Cardinality(ProjectHeaders))

(* The build ended on a tree where a.hpp and b.h include each other and a   *)
(* unit includes both: each was enqueued twice and scanned once             *)
C13_Witness ==
    /\ pc = "built"
    /\ Len(scan_log) = 2
    /\ <<P, INC, A_HPP>> \in DOMAIN header_graph
    /\ <<P, INC, B_H>> \in DOMAIN header_graph
    /\ <<P, INC, B_H>> \in header_graph[<<P, INC, A_HPP>>]
    /\ <<P, INC, A_HPP>> \in header_graph[<<P, INC, B_H>>]
    /\ include_frequency[<<P, INC, A_HPP>>] = 2
    /\ include_frequency[<<P, INC, B_H>>] = 2

(* A resolved path that exists on disk, lies under the project root and    *)
(* has a header-like extension                                              *)
IsProjectHeaderOnDisk(path) ==
    /\ path # <<>>
    /\ DOTDOT \notin Range(path)
    /\ \E f \in files : Len(path) <= Len(f) /\ SubSeq(f, 1, Len(path)) = path
    /\ Len(project_root) < Len(path)
    /\ SubSeq(path, 1, Len(project_root)) = project_root
    /\ LowerStr(PathSuffix(path[Len(path)])) \in
          { <<".", "h">>, <<".", "h", "h">>, <<".", "h", "p", "p">>,
            <<".", "h", "x", "x">>, <<".", "i", "n", "c">>,
            <<".", "i", "p", "p">> }

(* C14: in every state of the graph build, every key of header_graph and    *)
(* every target of an edge is a resolved path that exists on disk, lies     *)
(* under the inferred project root and has a header-like extension;         *)
(* external headers and non-header files are neither nodes nor targets.     *)
C14_GraphHoldsProjectHeaders ==
    \A k \in DOMAIN header_graph :
        /\ IsProjectHeaderOnDisk(k)
        /\ \A target \in header_graph[k] : IsProjectHeaderOnDisk(target)

(* A finished run in which m.cpp included a.hpp and the source n.cpp, and   *)
(* a.hpp included b.h and the external /ext/x.h: both resolved, x.h was     *)
(* counted, and the graph holds a.hpp -> b.h only                           *)
C14_Witness ==
    /\ pc = "built"
    /\ unresolved_includes = <<>>
    /\ Token("\"", N_CPP) \in DOMAIN include_tokens
    /\ <<EXT, X_H>> \in DOMAIN include_frequency
    /\ DOMAIN header_graph = { <<P, INC, A_HPP>>, <<P, INC, B_H>> }
    /\ header_graph[<<P, INC, A_HPP>>] = { <<P, INC, B_H>> }
    /\ header_graph[<<P, INC, B_H>>] = {}

----------------------------------------------------------------------------
(* Specification SpecPhases: the candidate loop, the ranking and            *)
(* _build_phases over six project headers                                   *)

HeaderUnitLimit == 5
HeaderUnitMinFrequency == 2
SystemHeaderLimit == 5
SystemHeaderMinCount == 2
NamedModuleLimit == 5
NamedModuleMaxRisk == 65
NamedModuleMinFrequency == 2

(* f"Convert {header} to a header unit pilot (risk {risk_score})" *)
ConvertAction(c) ==
    [text |-> "Convert {} to a header unit pilot (risk {})",
     header |-> c.header, risk_score |-> c.risk_score]

(* f"Evaluate toolchain support ...: {system_headers}", the joined         *)
(* "token (count x)" items kept as a list                                   *)
EvaluateAction(system) ==
    [text |-> "Evaluate toolchain support for standard/third-party header units: {}",
     system_headers |-> system]

StartPilotAction ==
    [text |-> "Start with one low-risk, high-frequency project header as a pilot"]

(* f"Prototype named module '{suggested_module}' from {header}" *)
PrototypeAction(c) ==
    [text |-> "Prototype named module '{}' from {}",
     suggested_module |-> c.suggested_module, header |-> c.header]

ReduceMacrosAction ==
    [text |-> "No safe named-module candidates yet; reduce macro usage and break cycles first"]

(* p2_candidates with the cut to five made before the filter *)
P2CandidatesCutFirst(list) ==
    SelectSeq(Take(list, NamedModuleLimit),
              LAMBDA c : /\ c.risk_score <= NamedModuleMaxRisk
                         /\ ~c.in_cycle
                         /\ c.include_frequency >= NamedModuleMinFrequency)

(* p2_candidates: the filtered candidates, then [:5] *)
P2Candidates(list) ==
    Take(SelectSeq(list,
                   LAMBDA c : /\ c.risk_score <= NamedModuleMaxRisk
                              /\ ~c.in_cycle
                              /\ c.include_frequency >= NamedModuleMinFrequency),
         NamedModuleLimit)

(* _build_phases: the actions of phases 1 and 2 *)
BuildPhasesOf(list, tokens) ==
    LET p1_project ==
            Take(SelectSeq(list,
                     LAMBDA c : /\ c.recommendation = "P1 header unit candidate"
                                /\ c.include_frequency >= HeaderUnitMinFrequency),
                 HeaderUnitLimit)
        p1_system ==
            Take(SelectSeq(tokens,
                     LAMBDA t : /\ StartsWith(t.token, <<"<">>)
                                /\ t.count >= SystemHeaderMinCount),
                 SystemHeaderLimit)
        p1_converts == [i \in DOMAIN p1_project |-> ConvertAction(p1_project[i])]
        p1_both == IF p1_system # <<>>
                   THEN Append(p1_converts, EvaluateAction(p1_system))
                   ELSE p1_converts
        p2_candidates == P2Candidates(list)
    IN [p1_actions |-> IF p1_both = <<>> THEN <<StartPilotAction>> ELSE p1_both,
        p2_actions |-> IF p2_candidates # <<>>
                       THEN [i \in DOMAIN p2_candidates |->
                                PrototypeAction(p2_candidates[i])]
                       ELSE <<ReduceMacrosAction>>]

PhaseHeaders ==
    { <<"a", ".", "h">>, <<"b", ".", "h">>,
      <<"i", "n", "c", "l", "u", "d", "e", "/", "c", ".", "h", "p", "p">>,
      <<"d", "-", "e", ".", "h", "p", "p">>,
      <<"x", "/", "a", ".", "h", "p", "p">>,
      <<"a", "+", ".", "h", "p", "p">> }

(* Per header: included by two units; by five and in a cycle; by two and    *)
(* defining twelve macros; and, for the .h headers, by one unit             *)
PhaseSignals(h) ==
    { [freq |-> 2, macros |-> 0, cyc |-> FALSE],
      [freq |-> 5, macros |-> 0, cyc |-> TRUE],
      [freq |-> 2, macros |-> 12, cyc |-> FALSE] }
    \cup (IF PathSuffix(h) = <<".", "h">>
          THEN {[freq |-> 1, macros |-> 0, cyc |-> FALSE]}
          ELSE {})

PhaseTops == {4, 6}

VECTOR == <<"<", "v", "e", "c", "t", "o", "r", ">">>
A_HPP_QUOTED == <<"\"", "a", ".", "h", "p", "p", "\"">>
MAP == <<"<", "m", "a", "p", ">">>

(* include_tokens.most_common(): none, or three spellings by count *)
TokenLists ==
    { <<>>,
      << [token |-> A_HPP_QUOTED, count |-> 3], [token |-> VECTOR, count |-> 2],
         [token |-> MAP, count |-> 1] >> }

InitPhases ==
    /\ pc = "candidates"
    /\ InitExcept("phase")
    /\ header_signals \in
          {f \in [PhaseHeaders -> UNION {PhaseSignals(h) : h \in PhaseHeaders}] :
              \A h \in PhaseHeaders : f[h] \in PhaseSignals(h)}
    /\ candidates = <<>>
    /\ top \in PhaseTops
    /\ token_counts \in TokenLists
    /\ phases = NoPhases

(* phases = _build_phases(candidates=candidates, ...) *)
BuildPhases ==
    /\ pc = "ranked"
    /\ phases' = BuildPhasesOf(candidates, token_counts)
    /\ pc' = "phased"
    /\ UNCHANGED <<rankVars, token_counts, exceptPhase>>

NextPhases ==
    \/ BuildCandidates
    \/ RankCandidates
    \/ BuildPhases

SpecPhases == InitPhases /\ [][NextPhases]_vars

(* A listed candidate that phase 2 accepts *)
Qualifies(c) ==
    c.risk_score <= 65 /\ ~c.in_cycle /\ c.include_frequency >= 2

(* The ranks of the listed candidates phase 2 accepts, and the first five  *)
(* of them                                                                  *)
QualifyingRanks == {i \in DOMAIN candidates : Qualifies(candidates[i])}
ChosenRanks ==
    {i \in QualifyingRanks : Cardinality({j \in QualifyingRanks : j < i}) < 5}

(* C11: phase 2 holds one "Prototype named module" action, carrying the     *)
(* candidate's suggested module name and header, for each of the first five *)
(* listed candidates with risk_score <= 65, not in a cycle and include      *)
(* frequency >= 2, in rank order, and no action for any other header; when  *)
(* no listed candidate qualifies it holds exactly the one generic "reduce   *)
(* macro usage and break cycles first" action.                              *)
C11_PhaseTwoActions ==
    pc = "phased" =>
        IF QualifyingRanks = {}
        THEN phases.p2_actions = <<ReduceMacrosAction>>
        ELSE /\ Len(phases.p2_actions) = Cardinality(ChosenRanks)
             /\ \A i \in ChosenRanks :
                   LET k == Cardinality({j \in ChosenRanks : j <= i})
                   IN phases.p2_actions[k] =
                        [text |-> "Prototype named module '{}' from {}",
                         suggested_module |-> candidates[i].suggested_module,
                         header |-> candidates[i].header]
             /\ \A i \in DOMAIN candidates \ ChosenRanks :
                   \A k \in DOMAIN phases.p2_actions :
                       phases.p2_actions[k].header # candidates[i].header

(* Six listed candidates all qualify: the first five get an action, the     *)
(* sixth gets none                                                          *)
C11_Witness ==
    /\ pc = "phased"
    /\ Len(candidates) = 6
    /\ QualifyingRanks = 1..6
    /\ Len(phases.p2_actions) = 5
    /\ phases.p2_actions[5].header = candidates[5].header
    /\ phases.p2_actions[1].suggested_module # phases.p2_actions[1].header

----------------------------------------------------------------------------
(* Specification SpecReport: the readiness checks, the PlannerReport and    *)
(* its to_dict() for a run that recorded a given number of unresolved       *)
(* quoted includes.  _build_phases, between the first two steps, reads      *)
(* none of these values.                                                    *)

MaxUnresolved == 52
UnresolvedReportLimit == 50

(* The entry an unresolved #include "b.h" of src/m.cpp leaves *)
UnresolvedEntry ==
    [from |-> JoinSlash(<<SRC, M_CPP>>), include |-> Token("\"", B_H)]

ReportStdFlags ==
    { ExtractStdFlag(<<COMPILER>>),
      ExtractStdFlag(<<COMPILER, STD_EQ \o CXX \o <<"2", "0">> >>) }

InitReport ==
    /\ pc = "readiness"
    /\ InitExcept("report")
    /\ tu_args = <<>>
    /\ std_flags \in [1..1 -> ReportStdFlags]
    /\ cycle_count \in 0..MaxCount
    /\ heavy_count \in 0..MaxCount
    /\ unresolved_count = 0
    /\ readiness_checks = <<>>
    /\ \E n \in 0..MaxUnresolved :
          unresolved_includes = [i \in 1..n |-> UnresolvedEntry]
    /\ all_include_dirs = <<>>
    /\ project_root = <<>>
    /\ include_tokens = <<>>
    /\ include_frequency = <<>>
    /\ header_graph = <<>>
    /\ macro_counts = <<>>
    /\ header_queue = <<>>
    /\ scanned_headers = {}
    /\ tu_idx = 0
    /\ lines_read = 0
    /\ scan_log = <<>>
    /\ report = <<>>
    /\ summary = 0

(* readiness_checks = _build_readiness_checks(...,                          *)
(*     unresolved_count=len(unresolved_includes))                           *)
CountUnresolvedAndCheck ==
    /\ pc = "readiness"
    /\ unresolved_count' = Len(unresolved_includes)
    /\ readiness_checks' =
         BuildReadinessChecks(std_flags, cycle_count, heavy_count,
                              Len(unresolved_includes))
    /\ pc' = "report"
    /\ UNCHANGED <<tu_args, std_flags, cycle_count, heavy_count, buildVars,
                   reportVars, exceptReport>>

(* PlannerReport(..., unresolved_includes=unresolved_includes[:50]) *)
MakeReport ==
    /\ pc = "report"
    /\ report' = Take(unresolved_includes, UnresolvedReportLimit)
    /\ pc' = "reported"
    /\ UNCHANGED <<summary, readyVars, buildVars, exceptReport>>

(* to_dict(): "unresolved_include_count": len(self.unresolved_includes) *)
ToDict ==
    /\ pc = "reported"
    /\ summary' = Len(report)
    /\ pc' = "dict"
    /\ UNCHANGED <<report, readyVars, buildVars, exceptReport>>

NextReport ==
    \/ CountUnresolvedAndCheck
    \/ MakeReport
    \/ ToDict

SpecReport == InitReport /\ [][NextReport]_vars

(* The number the 'Include resolution quality' check states, as text *)
StatedUnresolved ==
    LET check == readiness_checks[4]
    IN IF check.status = "pass" THEN "0" ELSE check.details[1]

(* C15: in every report, summary.unresolved_include_count is the number of  *)
(* unresolved quoted includes the run recorded, and it is the number the    *)
(* 'Include resolution quality' check used and states, for any number of    *)
(* unresolved includes, more than 50 included.                              *)
C15_UnresolvedCountsAgree ==
    pc = "dict" =>
        /\ readiness_checks[4].title = "Include resolution quality"
        /\ summary = Len(unresolved_includes)
        /\ summary = unresolved_count
        /\ ToString(summary) = StatedUnresolved

============================================================================
